---------------------------- MODULE Spec2Model ----------------------------
(***************************************************************************)
(* Model of the multi-source download-link generator (link_generator.py)   *)
(* and of the per-year FROM_GLC scripts.                                   *)
(*                                                                         *)
(* Coordinates are fixed-point numbers in TENTHS of a degree (3.5 degrees  *)
(* is 35), so that fractional bounds such as 3.5, 16.3, 43.3, -0.1 of the  *)
(* source are exact.  Python's float floor division  v // 10  is then      *)
(* t \div 100, and  (v // 10) * 10  is  (t \div 100) * 100.                *)
(***************************************************************************)
EXTENDS Integers, Sequences, FiniteSets, TLC

VARIABLES
    pc,          \* position of the __main__ script
    geojson,     \* the pasted AOI text, as the JSON value it parses to
    bounds,      \* result of get_bounds_from_geojson (None or a bbox)
    years_list,  \* the requested years
    info_list,   \* source name -> sequence of entries
    cur,         \* <<source index, entry index>> of the assembler's loops
    all_dinfos,  \* the records collected by generate_combined_downloadinfo_csv
    calls,       \* log of resolver invocations, <<source, year>>
    fetches,     \* log of metadata fetches started by __main__
    env,         \* what the run has found of its environment so far: each
                 \* auxiliary file and the ESRI feature service
    hash_seed,   \* the process's string hash seed (0 until a set is iterated)
    output,      \* the table written at the end (None until written)
    fn,          \* function harness: the function applied ("none" before)
    inp,         \* function harness: its input
    out          \* function harness: its result

vars == <<pc, geojson, bounds, years_list, info_list, cur, all_dinfos, calls,
          fetches, env, hash_seed, output, fn, inp, out>>

mainVars == <<pc, geojson, bounds, years_list, info_list, cur, all_dinfos,
              calls, fetches, env, hash_seed, output>>

fnVars == <<fn, inp, out>>

None == "None"

----------------------------------------------------------------------------
(* Bounds of the model                                                      *)

\* the longest list of requested years
MaxYears == 2

\* the longest catalog snapshot drawn for a resolver
MaxCatalog == 2

\* the number of string hash seeds (set iteration orders) tried
HashSeeds == 3

----------------------------------------------------------------------------

\* d whole degrees in tenths of a degree
Deg(d) == d * 10

Max2(a, b) == IF a >= b THEN a ELSE b

Min2(a, b) == IF a <= b THEN a ELSE b

Abs(a) == IF a >= 0 THEN a ELSE -a

\* Python's  (value // 10) * 10  on a value given in tenths of a degree
FloorTen(t) == (t \div 100) * 100

\* Python's  ((value + 9) // 10) * 10  on a value given in tenths of a degree
CeilTenPlus9(t) == ((t + 90) \div 100) * 100

\* Python's int(): truncation toward zero, the result in whole degrees
IntTrunc(t) == IF t >= 0 THEN t \div 10 ELSE -((-t) \div 10)

----------------------------------------------------------------------------
(* Grid quantizers                                                          *)

\* a faulty variant of the module-level quantizer: rounds up with +10
adjust_global_plus10(value, is_min) ==
    IF is_min THEN Max2(Deg(-180), FloorTen(value))
    ELSE Min2(Deg(180), ((value + 100) \div 100) * 100)

\* adjust_to_nearest_10(value, is_min) of link_generator.py (longitude only)
adjust_to_nearest_10(value, is_min) ==
    IF is_min THEN Max2(Deg(-180), FloorTen(value))
    ELSE Min2(Deg(180), CeilTenPlus9(value))

\* get_links_from_glc_2015.adjust_to_nearest_10 (and the 2015 script's)
adjust_glc2015(value, is_latitude, is_min) ==
    IF is_latitude
    THEN (IF is_min THEN Max2(Deg(-60), FloorTen(value))
          ELSE Min2(Deg(80), CeilTenPlus9(value)))
    ELSE (IF is_min THEN Max2(Deg(-180), FloorTen(value))
          ELSE Min2(Deg(180), CeilTenPlus9(value)))

\* get_links_gfc_treecover2000.adjust_to_nearest_10
adjust_treecover(value, is_latitude, is_min) ==
    IF is_latitude
    THEN (IF is_min THEN Max2(Deg(-50), FloorTen(value))
          ELSE Min2(Deg(80), CeilTenPlus9(value)))
    ELSE (IF is_min THEN Max2(Deg(-180), FloorTen(value))
          ELSE Min2(Deg(180), CeilTenPlus9(value)))

\* _get_left_decval(val); the result is an int, in whole degrees
get_left_decval(val) ==
    LET v == IntTrunc(val)
    IN  IF v % 10 = 0 THEN v
        ELSE IF v > 0 THEN (Abs(v) \div 10) * 10
        ELSE -(1 + Abs(v) \div 10) * 10


----------------------------------------------------------------------------
(* Python helpers                                                           *)

\* list(range(a, b, s)) for a step s > 0
RangeUp(a, b, s) ==
    [i \in 1 .. (IF b > a THEN (b - a + s - 1) \div s ELSE 0) |-> a + (i - 1) * s]

\* list(range(a, b, -s)) for s > 0
RangeDown(a, b, s) ==
    [i \in 1 .. (IF a > b THEN (a - b + s - 1) \div s ELSE 0) |-> a - (i - 1) * s]

\* [F(x, y) for x in outer for y in inner]
Nested(outer, inner, F(_, _)) ==
    [k \in 1 .. Len(outer) * Len(inner) |->
        F(outer[((k - 1) \div Len(inner)) + 1], inner[((k - 1) % Len(inner)) + 1])]

\* the elements of the finite set S in ascending order of the injective
\* function key
RECURSIVE SortedBy(_, _)
SortedBy(S, key) ==
    IF S = {} THEN <<>>
    ELSE LET m == CHOOSE x \in S : \A y \in S : key[x] <= key[y]
         IN  <<m>> \o SortedBy(S \ {m}, key)

SeqsUpTo(S, n) == UNION {[1 .. k -> S] : k \in 0 .. n}

\* f"{n:0>w}" for a string s = str(n): s left-padded with '0' to width w
RECURSIVE PadLeft(_, _)
PadLeft(s, w) == IF Len(s) >= w THEN s ELSE PadLeft("0" \o s, w)

\* A download URL is the template it is formatted from and the values put in.
\* link_tmpl of get_links_gfc and of get_links_gfc_fcs30d (the same text)
GwlUrl(map_year) == [tmpl |-> "zenodo.org/records/10068479/files/GWL_FCS30", map_year |-> map_year]

\* link_tmp of get_links_gisd30
GisdUrl(val) == [tmpl |-> "zenodo.org/records/5220816/files/GISD30_1985-2020", val |-> val]

\* link_tmp of get_links_gfc_treecover2000
TreecoverUrl(lat_label, lon_label) ==
    [tmpl |-> "Hansen_GFC-2023-v1.11_treecover2000", lat_label |-> lat_label,
     lon_label |-> lon_label]

\* link_tmp of the FROM_GLC resolvers: .../resourceFile/download/<dataset>/<id>
PclUrl(dataset, id) == [tmpl |-> "pcl.ac.cn/resourceFile/download", dataset |-> dataset, id |-> id]

\* shapely box(...).intersects(box(...)): closed rectangles, touching counts
BoxIntersects(p, q) ==
    /\ p.min_lon <= q.max_lon /\ q.min_lon <= p.max_lon
    /\ p.min_lat <= q.max_lat /\ q.min_lat <= p.max_lat

BBox(min_lat, max_lat, min_lon, max_lon) ==
    [min_lat |-> min_lat, max_lat |-> max_lat, min_lon |-> min_lon, max_lon |-> max_lon]

----------------------------------------------------------------------------
(* Resolvers                                                                *)

\* a faulty variant: a link only for the years the archive is known to hold
get_links_gfc_known_years(year) ==
    IF year \in {2000, 2005, 2010, 2015, 2019, 2020, 2022} THEN <<GwlUrl(year)>> ELSE <<>>

\* get_links_gfc(year): one archive URL, whatever the year
get_links_gfc(year) == <<GwlUrl(year)>>

\* predefined_bboxes of get_links_gfc_fcs30d
predefined_bboxes ==
    [y \in {2000, 2005, 2010, 2015, 2019, 2022} |->
        IF y = 2019 THEN BBox(-1, 181, 99, 433) ELSE BBox(35, 163, 270, 433)]

\* a faulty list: 2010 is left to the region table
global_coverage_years_without_2010 == <<2000, 2005, 2015, 2019, 2020, 2022>>

global_coverage_years == <<2000, 2005, 2010, 2015, 2019, 2020, 2022>>

InList(x, list) == \E i \in 1 .. Len(list) : list[i] = x

\* a faulty variant: the region test is made before the global-coverage test
gfc_fcs30d_region_first(year, b) ==
    LET map_year == IF year = 2024 THEN 2022 ELSE year
    IN  IF map_year \in DOMAIN predefined_bboxes
        THEN (IF BoxIntersects(b, predefined_bboxes[map_year])
              THEN <<GwlUrl(map_year)>>
              ELSE <<>>)
        ELSE IF InList(map_year, global_coverage_years)
        THEN <<GwlUrl(map_year)>>
        ELSE <<>>

\* a faulty variant: a year outside both tables gets a link all the same
gfc_fcs30d_any_year(year, b) ==
    LET map_year == IF year = 2024 THEN 2022 ELSE year
    IN  IF map_year \in DOMAIN predefined_bboxes /\ ~InList(map_year, global_coverage_years)
             /\ ~BoxIntersects(b, predefined_bboxes[map_year])
        THEN <<>>
        ELSE <<GwlUrl(map_year)>>

\* get_links_gfc_fcs30d(year, min_lat, max_lat, min_lon, max_lon)
get_links_gfc_fcs30d(year, b) ==
    LET map_year == IF year = 2024 THEN 2022 ELSE year
    IN  IF InList(map_year, global_coverage_years)
        THEN <<GwlUrl(map_year)>>
        ELSE IF map_year \in DOMAIN predefined_bboxes
        THEN (IF BoxIntersects(b, predefined_bboxes[map_year])
              THEN <<GwlUrl(map_year)>>
              ELSE <<>>)
        ELSE <<>>

\* map_link_ranges of get_links_gisd30, in the order the dict is written
map_link_ranges ==
    << [lo |-> -180, hi |-> -150, val |-> "W155_W180"],
       [lo |-> -150, hi |-> -120, val |-> "W125_W150"],
       [lo |-> -120, hi |-> -90,  val |-> "W95_W120"],
       [lo |-> -90,  hi |-> -60,  val |-> "W65_W90"],
       [lo |-> -60,  hi |-> -30,  val |-> "W35_W60"],
       [lo |-> -30,  hi |-> 0,    val |-> "W5_W30"],
       [lo |-> 0,    hi |-> 35,   val |-> "E0_E30"],
       [lo |-> 35,   hi |-> 65,   val |-> "E35_E60"],
       [lo |-> 65,   hi |-> 95,   val |-> "E65_E90"],
       [lo |-> 95,   hi |-> 125,  val |-> "E95_E120"],
       [lo |-> 125,  hi |-> 155,  val |-> "E125_E150"],
       [lo |-> 155,  hi |-> 180,  val |-> "E155_E175"] >>

\* a faulty band test: touching ends do not count
gisd30_band_matches_strict(rg, b) ==
    Deg(rg.lo) < b.max_lon /\ Deg(rg.hi) > b.min_lon

\* the band test of get_links_gisd30: rg[0] <= max_lon and rg[1] >= min_lon
gisd30_band_matches(rg, b) ==
    Deg(rg.lo) <= b.max_lon /\ Deg(rg.hi) >= b.min_lon

\* unique_links of get_links_gisd30: the set of formatted links
gisd30_unique_links(b) ==
    {GisdUrl(map_link_ranges[i].val) :
        i \in {j \in 1 .. Len(map_link_ranges) : gisd30_band_matches(map_link_ranges[j], b)}}

\* The iteration order of a Python set of strings depends on the process's
\* string hash seed.  The seed picks one of the orders: the position of band
\* i is (i * m) % 13 for a multiplier m the seed gives, a permutation of 1..12
\* for each seed in 1..12 (seed 1: the table's order, seed 2: its reverse).
BandIndex(link) ==
    CHOOSE i \in 1 .. Len(map_link_ranges) : map_link_ranges[i].val = link.val

\* get_links_gisd30(min_lat, max_lat, min_lon, max_lon) under a hash seed
get_links_gisd30(b, seed) ==
    LET links == gisd30_unique_links(b)
        mult == IF seed % 2 = 1 THEN seed ELSE 14 - seed
        pos == [link \in links |-> (BandIndex(link) * mult) % 13]
    IN  SortedBy(links, pos)

\* get_links_gfc_treecover2000(min_lat, max_lat, min_lon, max_lon)
get_links_gfc_treecover2000(b) ==
    LET lat_min == adjust_treecover(b.min_lat, TRUE, TRUE)
        lat_max == adjust_treecover(b.max_lat, TRUE, FALSE)
        lon_min == adjust_treecover(b.min_lon, FALSE, TRUE)
        lon_max == adjust_treecover(b.max_lon, FALSE, FALSE)
        tile(lat, lon) ==
            TreecoverUrl(PadLeft(ToString(Abs(lat)), 2) \o (IF lat >= 0 THEN "N" ELSE "S"),
                         PadLeft(ToString(Abs(lon)), 3) \o (IF lon >= 0 THEN "E" ELSE "W"))
    IN  Nested(RangeDown(IntTrunc(lat_max), IntTrunc(lat_min), 10),
               RangeUp(IntTrunc(lon_min), IntTrunc(lon_max), 10), tile)

\* A catalog entry is [id, name]; a name is the '_'-separated tokens of the
\* text before its first '.', and the text after that '.' (ext).  A token
\* is a decimal integer (num) or some other text.
Tok(n) == [num |-> TRUE, val |-> n]

Word == [num |-> FALSE, val |-> 0]

Name(stem, ext) == [stem |-> stem, ext |-> ext]

\* name.endswith('.tif')
EndsWithTif(name) == name.ext \in {"tif"}

\* get_links_from_glc_2017 of link_generator.py: the last two tokens are
\* (lat, lon); an entry that does not parse is skipped
glc2017_entry_matches(ele, b) ==
    LET toks == ele.name.stem
        n == Len(toks)
    IN  /\ EndsWithTif(ele.name)
        /\ n >= 2
        /\ toks[n - 1].num /\ toks[n].num
        /\ LET lat == Deg(toks[n - 1].val)
               lon == Deg(toks[n].val)
           IN  b.min_lon <= lon /\ lon <= b.max_lon /\ b.min_lat <= lat /\ lat <= b.max_lat

Select(seq, Test(_)) == SelectSeq(seq, Test)

get_links_from_glc_2017(meta_data, b) ==
    LET hit(ele) == glc2017_entry_matches(ele, b)
        sel == Select(meta_data, hit)
    IN  [i \in 1 .. Len(sel) |-> PclUrl(1, sel[i].id)]

\* get_links_for_region of 2017/Download_FROM_GLC_2017.py: the tokens after
\* the first are (lat, lon); the four corners lat/lat+2, lon/lon+2 are tested.
\* An entry ending in .tif that does not parse raises (result "Error").
script2017_parses(ele) ==
    LET toks == ele.name.stem
    IN  Len(toks) = 3 /\ toks[2].num /\ toks[3].num

script2017_entry_matches(ele, b) ==
    LET lat == Deg(ele.name.stem[2].val)
        lon == Deg(ele.name.stem[3].val)
        inLon(x) == b.min_lon <= x /\ x <= b.max_lon
        inLat(y) == b.min_lat <= y /\ y <= b.max_lat
    IN  \/ (inLon(lon) /\ inLat(lat))
        \/ (inLon(lon + Deg(2)) /\ inLat(lat))
        \/ (inLon(lon) /\ inLat(lat + Deg(2)))
        \/ (inLon(lon + Deg(2)) /\ inLat(lat + Deg(2)))

script2017_get_links_for_region(meta_data, b) ==
    IF \E i \in 1 .. Len(meta_data) :
          EndsWithTif(meta_data[i].name) /\ ~script2017_parses(meta_data[i])
    THEN "Error"
    ELSE LET hit(ele) == EndsWithTif(ele.name) /\ script2017_entry_matches(ele, b)
             sel == Select(meta_data, hit)
         IN  [i \in 1 .. Len(sel) |-> PclUrl(1, sel[i].id)]

\* a faulty variant: the template of 2021 is used for no year
get_links_gsw_one_template(year, b) ==
    LET start_lon == get_left_decval(b.min_lon)
        end_lon == get_left_decval(b.max_lon)
        start_lat == get_left_decval(b.min_lat)
        end_lat == get_left_decval(b.max_lat)
        tile(lon, lat) ==
            [tmpl |-> "GSWE/YearlyClassification/LATEST/tiles/yearlyClassification",
             year |-> year,
             sep |-> "-",
             left |-> PadLeft(ToString((4 * (70 - lat)) \div 10), 6),
             right |-> PadLeft(ToString((4 * (lon + 180)) \div 10), 6)]
    IN  Nested(RangeUp(start_lon, end_lon + 10, 10),
               RangeUp(start_lat, end_lat + 10, 10), tile)

\* get_links_gsw(year, min_lat, max_lat, min_lon, max_lon)
get_links_gsw(year, b) ==
    LET start_lon == get_left_decval(b.min_lon)
        end_lon == get_left_decval(b.max_lon)
        start_lat == get_left_decval(b.min_lat)
        end_lat == get_left_decval(b.max_lat)
        tile(lon, lat) ==
            [tmpl |-> "GSWE/YearlyClassification/LATEST/tiles/yearlyClassification",
             year |-> year,
             sep |-> IF year = 2021 THEN "_" ELSE "-",
             left |-> PadLeft(ToString((4 * (70 - lat)) \div 10), 6),
             right |-> PadLeft(ToString((4 * (lon + 180)) \div 10), 6)]
    IN  Nested(RangeUp(start_lon, end_lon + 10, 10),
               RangeUp(start_lat, end_lat + 10, 10), tile)

\* get_links_glc_fcs30d_unofficial(min_lat, max_lat, min_lon, max_lon)
get_links_glc_fcs30d_unofficial(b) ==
    LET lon_min == adjust_to_nearest_10(b.min_lon, TRUE)
        lon_max == adjust_to_nearest_10(b.max_lon, FALSE)
        lons == RangeUp(IntTrunc(lon_min), IntTrunc(lon_max) + 1, 10)
        label(v) == (IF v >= 0 THEN "E" ELSE "W") \o ToString(Abs(v))
        link(lon) ==
            LET first == IF Abs(lon) < Abs(lon + 5) THEN lon ELSE lon + 5
                second == IF Abs(lon) < Abs(lon + 5) THEN lon + 5 ELSE lon
            IN  [tmpl |-> "zenodo.org/records/8239305/files/GLC_FCS30D_19852022maps",
                 left_left_top |-> label(first), right_left_top |-> label(second)]
    IN  [i \in 1 .. Len(lons) |-> link(lons[i])]

\* What a generator gives its consumer: the links it yields, and whether it
\* then ends by raising an exception instead of returning.
Gen(links, raised) == [links |-> links, raised |-> raised]

\* index of the first element of seq that satisfies Test, Len(seq)+1 if none
FirstIndex(seq, Test(_)) ==
    IF \E i \in 1 .. Len(seq) : Test(seq[i])
    THEN CHOOSE i \in 1 .. Len(seq) : Test(seq[i]) /\ \A j \in 1 .. i - 1 : ~Test(seq[j])
    ELSE Len(seq) + 1

\* get_links_esri(year, ...): response is what the feature service answers,
\* [ok, features]; a feature is [has_name, ImageName].  A failed query is
\* caught (no link); a feature without attributes/ImageName raises KeyError
\* in the loop, outside the try block.
get_links_esri(year, response) ==
    IF ~response.ok THEN Gen(<<>>, FALSE)
    ELSE LET features == response.features
             bad(f) == ~f.has_name
             stop == FirstIndex(features, bad)
         IN  Gen([i \in 1 .. stop - 1 |->
                    [tmpl |-> "lulctimeseries.blob.core.windows.net/lulctimeseriesv003",
                     image_name |-> features[i].ImageName,
                     from_year |-> year, to_year |-> year + 1]],
                 stop <= Len(features))

\* get_links_ghs_bu_r2023a: gdf is the tile index read from the shapefile,
\* tiles [tile_id, bbox, is_valid] in WGS84
get_links_ghs_bu_r2023a(b, gdf) ==
    LET keep(t) == BoxIntersects(t.bbox, b) /\ t.is_valid
        filtered == Select(gdf, keep)
    IN  [i \in 1 .. Len(filtered) |->
            [tmpl |-> "GHS_BUILT_S_E2018_GLOBE_R2023A_54009_10_V1_0", tid |-> filtered[i].tile_id]]

\* get_links_wsf: gdf is the year's grid, rows [Download, bbox]
get_links_wsf(b, gdf) ==
    LET keep(t) == BoxIntersects(t.bbox, b)
        filtered == Select(gdf, keep)
    IN  [i \in 1 .. Len(filtered) |-> [tmpl |-> "wsf", Download |-> filtered[i].Download]]

\* find_paths_rows_of_Landsat_by_range: the scenes [PATH, ROW, bbox,
\* is_valid] of the descending then the ascending shapefile that are valid
\* and intersect the bbox, as (PATH, ROW) pairs without duplicates
find_paths_rows_of_Landsat_by_range(b, wrs2) ==
    LET keep(t) == t.is_valid /\ BoxIntersects(t.bbox, b)
        hits == Select(wrs2, keep)
        pr(i) == <<hits[i].PATH, hits[i].ROW>>
        firstOf(i) == \A j \in 1 .. i - 1 : pr(j) # pr(i)
        idx == SortedBy({i \in 1 .. Len(hits) : firstOf(i)}, [i \in 1 .. Len(hits) |-> i])
    IN  [k \in 1 .. Len(idx) |-> pr(idx[k])]

\* A FROM_GLC 2010 name is [prefix, path, row, digits_ok, ext]: its first two
\* characters, the 3+3 digits after them, whether those six characters are
\* digits, and the text after the first '.'.
\* name.lower().startswith('l5')
StartsWithL5(name) == name.prefix \in {"L5", "l5"}

\* get_links_from_glc_2010: raises ValueError (uncaught) when an L5 name's
\* six characters after the prefix are not digits
get_links_from_glc_2010(meta_data, b, wrs2) ==
    LET isL5(ele) == StartsWithL5(ele.name)
        l5 == Select(meta_data, isL5)
        raises == \E i \in 1 .. Len(l5) : ~l5[i].name.digits_ok
        scenes == find_paths_rows_of_Landsat_by_range(b, wrs2)
        ofScene(k) ==
            LET hit(ele) == /\ <<ele.name.path, ele.name.row>> = scenes[k]
                            /\ ele.name.ext = "tif.tar.gz"
            IN  Select(l5, hit)
        RECURSIVE Flat(_)
        Flat(k) == IF k > Len(scenes) THEN <<>> ELSE ofScene(k) \o Flat(k + 1)
        eles == Flat(1)
    IN  IF raises THEN Gen(<<>>, TRUE)
        ELSE Gen([i \in 1 .. Len(eles) |-> PclUrl(4, eles[i].id)], FALSE)

\* a faulty variant: the hemisphere letters come before the digits
glc2015_tile_name_letters_first(lat, lon) ==
    LET lat_label == (IF lat >= 0 THEN "N" ELSE "S") \o PadLeft(ToString(Abs(lat)), 2)
        lon_label == (IF lon >= 0 THEN "E" ELSE "W") \o PadLeft(ToString(Abs(lon)), 3)
    IN  lon_label \o lat_label \o ".tif"

\* the tile label of get_links_from_glc_2015: lon_label, lat_label, '.tif'
glc2015_tile_name(lat, lon) ==
    LET lat_label == PadLeft(ToString(Abs(lat)), 2) \o (IF lat >= 0 THEN "N" ELSE "S")
        lon_label == PadLeft(ToString(Abs(lon)), 3) \o (IF lon >= 0 THEN "E" ELSE "W")
    IN  lon_label \o lat_label \o ".tif"

\* a faulty variant: the loop over the catalog does not break at the first
\* entry of the name
get_links_from_glc_2015_no_break(meta_data, b) ==
    LET lat_min == adjust_glc2015(b.min_lat, TRUE, TRUE)
        lat_max == adjust_glc2015(b.max_lat, TRUE, FALSE)
        lon_min == adjust_glc2015(b.min_lon, FALSE, TRUE)
        lon_max == adjust_glc2015(b.max_lon, FALSE, FALSE)
        names == Nested(RangeDown(IntTrunc(lat_max), IntTrunc(lat_min), 10),
                        RangeUp(IntTrunc(lon_min), IntTrunc(lon_max), 10),
                        glc2015_tile_name)
        RECURSIVE All(_)
        All(k) == IF k > Len(names) THEN <<>>
                  ELSE LET is(ele) == ele.name = names[k]
                       IN  Select(meta_data, is) \o All(k + 1)
        eles == All(1)
    IN  [k \in 1 .. Len(eles) |-> PclUrl(3, eles[k].id)]

\* get_links_from_glc_2015(meta_file, ...): meta_data entries are [id, name]
\* with the name as text
get_links_from_glc_2015(meta_data, b) ==
    LET lat_min == adjust_glc2015(b.min_lat, TRUE, TRUE)
        lat_max == adjust_glc2015(b.max_lat, TRUE, FALSE)
        lon_min == adjust_glc2015(b.min_lon, FALSE, TRUE)
        lon_max == adjust_glc2015(b.max_lon, FALSE, FALSE)
        names == Nested(RangeDown(IntTrunc(lat_max), IntTrunc(lat_min), 10),
                        RangeUp(IntTrunc(lon_min), IntTrunc(lon_max), 10),
                        glc2015_tile_name)
        found(name) == \E i \in 1 .. Len(meta_data) : meta_data[i].name = name
        present == Select(names, found)
        first(name) == LET is(ele) == ele.name = name
                       IN  meta_data[FirstIndex(meta_data, is)]
    IN  [k \in 1 .. Len(present) |-> PclUrl(3, first(present[k]).id)]

----------------------------------------------------------------------------
(* AOI parsing and year resolution                                          *)

\* Python's None where the other values are records
NoneBounds == [none |-> TRUE]

\* The pasted text is [parses, value]: whether json.loads accepts it, and the
\* JSON object it gives.  JSON null is the object [type |-> "null"].
JsonNull == [type |-> "null"]

MinOf(S) == CHOOSE x \in S : \A y \in S : x <= y

MaxOf(S) == CHOOSE x \in S : \A y \in S : x >= y

\* shape(geom).bounds reordered as get_bounds_from_geojson returns it;
\* shape() raises for anything that is no geometry object (None here)
shape_bounds(geom) ==
    IF geom.type = "Point"
    THEN BBox(geom.coordinates[2], geom.coordinates[2],
              geom.coordinates[1], geom.coordinates[1])
    ELSE IF geom.type = "Polygon"
    THEN LET ring == geom.coordinates[1]
             lons == {ring[i][1] : i \in 1 .. Len(ring)}
             lats == {ring[i][2] : i \in 1 .. Len(ring)}
         IN  BBox(MinOf(lats), MaxOf(lats), MinOf(lons), MaxOf(lons))
    ELSE NoneBounds

\* get_bounds_from_geojson(geojson_str): every exception gives None
get_bounds_from_geojson(text) ==
    IF ~text.parses THEN NoneBounds
    ELSE LET geojson_data == text.value
         IN  IF "features" \in DOMAIN geojson_data
             THEN (IF Len(geojson_data.features) = 0 THEN NoneBounds
                   ELSE IF "geometry" \notin DOMAIN geojson_data.features[1] THEN NoneBounds
                   ELSE shape_bounds(geojson_data.features[1].geometry))
             ELSE IF "geometry" \in DOMAIN geojson_data
             THEN shape_bounds(geojson_data.geometry)
             ELSE NoneBounds

\* a faulty variant: the test never rejects
bounds_rejected_never(b) == FALSE

\* the test  if not bounds  of __main__
bounds_rejected(b) == b = NoneBounds

\* the key of find_closest_year's min(): (abs(y - target_year), -y), compared
\* as Python compares tuples
KeyLess(y1, y2, target_year) ==
    \/ Abs(y1 - target_year) < Abs(y2 - target_year)
    \/ (Abs(y1 - target_year) = Abs(y2 - target_year) /\ -y1 < -y2)

\* min(seq, key=...): the first element of seq no element's key is less than
MinByKey(seq, target_year) ==
    LET minimal(i) == \A j \in 1 .. Len(seq) : ~KeyLess(seq[j], seq[i], target_year)
    IN  seq[CHOOSE i \in 1 .. Len(seq) : minimal(i) /\ \A j \in 1 .. i - 1 : ~minimal(j)]

\* a faulty variant: ties go to the earlier year
find_closest_year_earlier(target_year, available_years) ==
    LET S == {available_years[i] : i \in 1 .. Len(available_years)}
    IN  CHOOSE m \in S : \A n \in S :
            \/ Abs(m - target_year) < Abs(n - target_year)
            \/ (Abs(m - target_year) = Abs(n - target_year) /\ m <= n)

\* find_closest_year(target_year, available_years), for a non-empty list
find_closest_year(target_year, available_years) ==
    MinByKey(available_years, target_year)

sources ==
    << "GSW", "GFC", "GFC_FCS30D", "ESRI", "GHS_BU_R2023A", "FROM_GLC_2010",
       "FROM_GLC_2015", "FROM_GLC_2017", "GISD30", "WSF", "GFC_TreeCover2000",
       "GLC_FCS30D_UNOFFICIAL" >>

SourceSet == {sources[i] : i \in 1 .. Len(sources)}

\* SOURCE_YEAR_AVAILABILITY.get(source): the empty list stands for None
SOURCE_YEAR_AVAILABILITY(source) ==
    CASE source = "GFC_FCS30D" -> <<2000, 2005, 2010, 2015, 2019, 2020, 2024>>
      [] source = "GHS_BU_R2023A" -> <<2018>>
      [] source = "FROM_GLC_2010" -> <<2010>>
      [] source = "FROM_GLC_2015" -> <<2015>>
      [] source = "FROM_GLC_2017" -> <<2017>>
      [] source = "GISD30" -> [i \in 1 .. 36 |-> 1984 + i]
      [] source = "WSF" -> <<2015, 2019>>
      [] source = "GFC_TreeCover2000" -> <<2000>>
      [] source = "GLC_FCS30D_UNOFFICIAL" -> [i \in 1 .. 38 |-> 1984 + i]
      [] OTHER -> <<>>

\* the year __main__ goes on with for a source and a requested year
snapped_year(source, year) ==
    LET available_years == SOURCE_YEAR_AVAILABILITY(source)
    IN  IF available_years # <<>> /\ ~InList(year, available_years)
        THEN find_closest_year(year, available_years)
        ELSE year

\* the entries __main__ appends to info_list[source], for years_list = years
info_entries(source, years) ==
    LET snapped == [i \in 1 .. Len(years) |-> snapped_year(source, years[i])]
        kept(y) == ~(source = "GSW" /\ ~(1984 <= y /\ y <= 2023))
        ys == Select(snapped, kept)
    IN  [i \in 1 .. Len(ys) |->
            [year |-> ys[i],
             map_year |-> IF source = "GFC_FCS30D" /\ ys[i] = 2024 THEN 2022
                          ELSE IF source = "GHS_BU_R2023A" THEN 2018
                          ELSE ys[i]]]

\* get_bounding_box_from_range(min_lat, max_lat, min_lon, max_lon)
get_bounding_box_from_range(b) ==
    << <<b.min_lon, b.max_lat>>, <<b.min_lon, b.min_lat>>, <<b.max_lon, b.min_lat>>,
       <<b.max_lon, b.max_lat>>, <<b.min_lon, b.max_lat>> >>

----------------------------------------------------------------------------
(* The idle values of the two groups of variables: a specification that    *)
(* exercises one group leaves the other at these values.                    *)

MainIdle ==
    /\ pc = "idle"
    /\ geojson = None
    /\ bounds = NoneBounds
    /\ years_list = <<>>
    /\ info_list = <<>>
    /\ cur = <<0, 0>>
    /\ all_dinfos = <<>>
    /\ calls = <<>>
    /\ fetches = <<>>
    /\ env = <<>>
    /\ hash_seed = 0
    /\ output = None

FnIdle ==
    /\ fn = "idle"
    /\ inp = None
    /\ out = None

----------------------------------------------------------------------------
(* Spec: the __main__ script of link_generator.py, from the pasted AOI to   *)
(* the written table.  generate_combined_downloadinfo_csv is run one        *)
(* (source, entry) pair at a time.                                          *)

\* requested years: inside every list, between members, on a tie (2017 for
\* WSF and GFC_FCS30D), past the end of the lists and of the GSW range
YearChoices == {2003, 2017, 2024}

YearLists == UNION {[1 .. k -> YearChoices] : k \in 1 .. MaxYears}

Polygon(ring) == [type |-> "Polygon", coordinates |-> <<ring>>]

\* the Africa region of the source's examples (3.5..16.3 N, 27..43.3 E)
PolyAfrica ==
    Polygon(<< <<270, 35>>, <<433, 35>>, <<433, 163>>, <<270, 163>>, <<270, 35>> >>)

\* open ocean in the South Pacific (45.5..44.5 S, 150.5..149.5 W)
PolyPacific ==
    Polygon(<< <<-1505, -455>>, <<-1495, -455>>, <<-1495, -445>>, <<-1505, -445>>,
               <<-1505, -455>> >>)

\* a single point at 10 N, 20 E
PointGeom == [type |-> "Point", coordinates |-> <<200, 100>>]

Feature(geom) == [type |-> "Feature", geometry |-> geom]

FeatureCollection(features) == [type |-> "FeatureCollection", features |-> features]

Text(value) == [parses |-> TRUE, value |-> value]

GeoJsonChoices ==
    { Text(Feature(PolyAfrica)),
      Text(FeatureCollection(<<Feature(PolyPacific)>>)),
      Text(FeatureCollection(<<Feature(PointGeom), Feature(PolyAfrica)>>)),
      Text(PolyAfrica),
      Text(PointGeom),
      Text(FeatureCollection(<<>>)),
      Text(Feature(JsonNull)),
      [parses |-> FALSE, value |-> JsonNull] }

AuxFiles == {"ghs_shapefile_path", "meta_file_2010", "wrs2_desc_path", "wrs2_asc_path",
             "meta_file_2015", "meta_file_2017", "wsf_2015_grid_path",
             "wsf_2019_grid_path"}

\* The environment is the same all through a run: a file is there or not,
\* the feature service answers every query the same way.  It is found out
\* at the first use.  CanBe(f, st): f can be found in state st, nothing
\* being known of it yet or that having been found before.
CanBe(f, st) == env[f] \in {"unknown", st}

\* what the ESRI feature service answers: a failed query, one footprint, or
\* a footprint followed by a feature without ImageName
EsriServiceStates == {"query_fails", "answers", "answers_malformed"}

EsriResponse(service) ==
    CASE service = "query_fails" -> [ok |-> FALSE, features |-> <<>>]
      [] service = "answers" ->
            [ok |-> TRUE, features |-> <<[has_name |-> TRUE, ImageName |-> "35P"]>>]
      [] service = "answers_malformed" ->
            [ok |-> TRUE, features |-> <<[has_name |-> TRUE, ImageName |-> "35P"],
                                         [has_name |-> FALSE, ImageName |-> ""]>>]

\* the auxiliary data, when the files are there
GhsTiles ==
    << [tile_id |-> "R8_C21", bbox |-> BBox(0, 200, 200, 450), is_valid |-> TRUE],
       [tile_id |-> "R8_C22", bbox |-> BBox(0, 200, 300, 500), is_valid |-> FALSE],
       [tile_id |-> "R13_C3", bbox |-> BBox(-500, -400, -1600, -1400), is_valid |-> TRUE] >>

Wrs2Desc ==
    << [PATH |-> 170, ROW |-> 52, bbox |-> BBox(90, 110, 300, 320), is_valid |-> TRUE],
       [PATH |-> 171, ROW |-> 52, bbox |-> BBox(90, 110, 285, 305), is_valid |-> TRUE] >>

Wrs2Asc ==
    << [PATH |-> 170, ROW |-> 52, bbox |-> BBox(90, 110, 300, 320), is_valid |-> TRUE],
       [PATH |-> 20, ROW |-> 200, bbox |-> BBox(95, 105, 195, 205), is_valid |-> TRUE] >>

Name2010(prefix, path, row, ext) ==
    [prefix |-> prefix, path |-> path, row |-> row, digits_ok |-> TRUE, ext |-> ext]

Meta2010 ==
    << [id |-> 41, name |-> Name2010("L5", 170, 52, "tif.tar.gz")],
       [id |-> 42, name |-> Name2010("l5", 170, 52, "jpg")],
       [id |-> 43, name |-> Name2010("L7", 171, 52, "tif.tar.gz")],
       [id |-> 44, name |-> Name2010("L5", 20, 200, "tif.tar.gz")] >>

Meta2015 ==
    << [id |-> 31, name |-> "030E10N.tif"],
       [id |-> 32, name |-> "020E20N.tif"],
       [id |-> 33, name |-> "030E20N.tif"],
       [id |-> 34, name |-> "030E20N.tif"] >>

Meta2017 ==
    << [id |-> 1, name |-> Name(<<Word, Tok(10), Tok(20)>>, "tif")],
       [id |-> 2, name |-> Name(<<Word, Tok(10), Tok(30)>>, "tif")],
       [id |-> 3, name |-> Name(<<Word, Word, Tok(20)>>, "tif")],
       [id |-> 4, name |-> Name(<<Word, Tok(2), Tok(26)>>, "tif")] >>

WsfGrid(year) ==
    << [Download |-> <<"WSF", year, "e028_n04">>, bbox |-> BBox(40, 60, 280, 300)],
       [Download |-> <<"WSF", year, "e020_n10">>, bbox |-> BBox(100, 120, 200, 220)] >>

region_name == "custom_AOI"

Init ==
    /\ pc = "start"
    /\ geojson = [parses |-> FALSE, value |-> JsonNull]
    /\ bounds = NoneBounds
    /\ years_list = <<>>
    /\ info_list = [s \in SourceSet |-> <<>>]
    /\ cur = <<0, 0>>
    /\ all_dinfos = <<>>
    /\ calls = <<>>
    /\ fetches = <<>>
    /\ env = [k \in AuxFiles \cup {"esri_service"} |-> "unknown"]
    /\ hash_seed = 0
    /\ output = None
    /\ FnIdle

\* lines 459-474: the AOI is pasted and its bounds are taken
ReadAOI ==
    /\ pc = "start"
    /\ \E text \in GeoJsonChoices :
          /\ geojson' = text
          /\ bounds' = get_bounds_from_geojson(text)
    /\ pc' = "check_bounds"
    /\ UNCHANGED <<years_list, info_list, cur, all_dinfos, calls, fetches, env, hash_seed, output,
                   fnVars>>

\* lines 475-478: exit on an AOI without bounds
CheckBounds ==
    /\ pc = "check_bounds"
    /\ pc' = IF bounds_rejected(bounds) THEN "exit" ELSE "read_years"
    /\ UNCHANGED <<geojson, bounds, years_list, info_list, cur, all_dinfos, calls, fetches,
                   env, hash_seed, output, fnVars>>

\* lines 495-499: a comma-separated list of integers is read
ReadYears ==
    /\ pc = "read_years"
    /\ \E ys \in YearLists : years_list' = ys
    /\ pc' = "build_info"
    /\ UNCHANGED <<geojson, bounds, info_list, cur, all_dinfos, calls, fetches, env, hash_seed,
                   output, fnVars>>

\* lines 500-501: anything else is refused and asked for again
ReadYearsRefused ==
    /\ pc = "read_years"
    /\ UNCHANGED vars

\* lines 503-549: info_list is built for all sources
BuildInfoList ==
    /\ pc = "build_info"
    /\ info_list' = [s \in SourceSet |-> info_entries(s, years_list)]
    /\ pc' = "fetch_2015"
    /\ UNCHANGED <<geojson, bounds, years_list, cur, all_dinfos, calls, fetches, env, hash_seed,
                   output, fnVars>>

HasYear(entries, y) == \E i \in 1 .. Len(entries) : entries[i].year = y

\* the position of the first (source, entry) pair after source index si
\* (sources without entries are passed over), <<13, 0>> when there is none
NextSource(si) ==
    LET later == {k \in si + 1 .. Len(sources) : info_list[sources[k]] # <<>>}
    IN  IF later = {} THEN <<Len(sources) + 1, 0>> ELSE <<MinOf(later), 1>>

\* lines 567-573: a catalog snapshot that is needed and not there is fetched;
\* _fetch_pcl_metadata writes the file unless the request raises
FetchMeta(at, then, source, year, file, dataset_name) ==
    /\ pc = at
    /\ IF ~HasYear(info_list[source], year)
       THEN UNCHANGED <<env, fetches>>
       ELSE \E found \in {"present", "fetched", "fetch_failed"} :
               /\ CanBe(file, IF found = "present" THEN "present" ELSE "missing")
               /\ env' = [env EXCEPT
                              ![file] = IF found = "fetch_failed" THEN "missing" ELSE "present"]
               /\ fetches' = IF found = "present" THEN fetches
                             ELSE Append(fetches, dataset_name)
    /\ pc' = then
    /\ cur' = IF then = "generate" THEN NextSource(0) ELSE cur
    /\ UNCHANGED <<geojson, bounds, years_list, info_list, all_dinfos, calls, hash_seed,
                   output, fnVars>>

FetchMeta2015 ==
    FetchMeta("fetch_2015", "fetch_2017", "FROM_GLC_2015", 2015, "meta_file_2015",
              "FROM_GLC 2015")

FetchMeta2017 ==
    FetchMeta("fetch_2017", "generate", "FROM_GLC_2017", 2017, "meta_file_2017",
              "FROM_GLC 2017")

\* the entry the assembler is at
CurSource == sources[cur[1]]

CurInfo == info_list[CurSource][cur[2]]

At(source_name) ==
    /\ pc = "generate"
    /\ cur[1] <= Len(sources)
    /\ CurSource = source_name

\* lines 381-384: the template of the entry's records
dinfo_template(type, map_name) ==
    [region |-> region_name, year |-> CurInfo.year, map_name |-> map_name,
     map_year |-> CurInfo.map_year, aoi |-> get_bounding_box_from_range(bounds),
     type |-> type]

WithHeaders(template) == template @@ [request_headers |-> "FROM_GLC_Headers"]

\* a record loop that stops after the first link
Consume_first_link_only(template, links_iterator) ==
    /\ all_dinfos' = all_dinfos \o
          [i \in 1 .. (IF links_iterator.links = <<>> THEN 0 ELSE 1) |->
              template @@ [url |-> links_iterator.links[i]]]
    /\ IF links_iterator.raised
       THEN pc' = "crash" /\ cur' = cur
       ELSE LET nxt == IF cur[2] < Len(info_list[CurSource])
                       THEN <<cur[1], cur[2] + 1>>
                       ELSE NextSource(cur[1])
            IN  /\ cur' = nxt
                /\ pc' = IF nxt[1] > Len(sources) THEN "write" ELSE "generate"

\* lines 427-433 and the loops' step: one record per link the iterator
\* yields; an exception raised by the iterator ends the script
Consume(template, links_iterator) ==
    /\ all_dinfos' = all_dinfos \o
          [i \in 1 .. Len(links_iterator.links) |->
              template @@ [url |-> links_iterator.links[i]]]
    /\ IF links_iterator.raised
       THEN pc' = "crash" /\ cur' = cur
       ELSE LET nxt == IF cur[2] < Len(info_list[CurSource])
                       THEN <<cur[1], cur[2] + 1>>
                       ELSE NextSource(cur[1])
            IN  /\ cur' = nxt
                /\ pc' = IF nxt[1] > Len(sources) THEN "write" ELSE "generate"

\* the resolver calls of the run: the source, the year handed over, and the
\* links the iterator went on to yield
Called(year, links_iterator) ==
    calls' = Append(calls, [source |-> CurSource, year |-> year,
                            links |-> links_iterator.links,
                            raised |-> links_iterator.raised])

GenGSW ==
    /\ At("GSW")
    /\ LET links_iterator == Gen(get_links_gsw(CurInfo.year, bounds), FALSE)
       IN  /\ Called(CurInfo.year, links_iterator)
           /\ Consume(dinfo_template("URL", "GSW"), links_iterator)
    /\ UNCHANGED <<geojson, bounds, years_list, info_list, fetches, env, hash_seed, output, fnVars>>

GenGFC ==
    /\ At("GFC")
    /\ LET links_iterator == Gen(get_links_gfc(CurInfo.map_year), FALSE)
       IN  /\ Called(CurInfo.map_year, links_iterator)
           /\ Consume(dinfo_template("URL_UNARCHIVE", "GFC"), links_iterator)
    /\ UNCHANGED <<geojson, bounds, years_list, info_list, fetches, env, hash_seed, output, fnVars>>

GenGfcFcs30d ==
    /\ At("GFC_FCS30D")
    /\ LET links_iterator == Gen(get_links_gfc_fcs30d(CurInfo.year, bounds), FALSE)
       IN  /\ Called(CurInfo.year, links_iterator)
           /\ Consume(dinfo_template("URL_UNARCHIVE", "GWL_FCS30D"), links_iterator)
    /\ UNCHANGED <<geojson, bounds, years_list, info_list, fetches, env, hash_seed, output, fnVars>>

GenESRI ==
    /\ At("ESRI")
    /\ \E service \in EsriServiceStates :
          LET links_iterator == get_links_esri(CurInfo.year, EsriResponse(service))
          IN  /\ CanBe("esri_service", service)
              /\ env' = [env EXCEPT !["esri_service"] = service]
              /\ Called(CurInfo.year, links_iterator)
              /\ Consume(dinfo_template("URL", "ESRI"), links_iterator)
    /\ UNCHANGED <<geojson, bounds, years_list, info_list, fetches, hash_seed, output, fnVars>>

\* a resolver that reads the auxiliary files fs in this order, and raises at
\* the first that is missing
ReadsFiles(fs, template, links) ==
    \E n \in 0 .. Len(fs) :
        /\ \A i \in 1 .. n : CanBe(fs[i], "present")
        /\ n < Len(fs) => CanBe(fs[n + 1], "missing")
        /\ env' = [f \in DOMAIN env |->
                        IF \E i \in 1 .. n : fs[i] = f THEN "present"
                        ELSE IF n < Len(fs) /\ fs[n + 1] = f THEN "missing"
                        ELSE env[f]]
        /\ LET links_iterator == IF n = Len(fs) THEN links ELSE Gen(<<>>, TRUE)
           IN  /\ Called(CurInfo.year, links_iterator)
               /\ Consume(template, links_iterator)

GenGHS ==
    /\ At("GHS_BU_R2023A")
    /\ ReadsFiles(<<"ghs_shapefile_path">>, dinfo_template("URL_UNARCHIVE", "GHS_BU_R2023A"),
                  Gen(get_links_ghs_bu_r2023a(bounds, GhsTiles), FALSE))
    /\ UNCHANGED <<geojson, bounds, years_list, info_list, fetches, hash_seed, output, fnVars>>

GenGlc2010 ==
    /\ At("FROM_GLC_2010")
    /\ ReadsFiles(<<"meta_file_2010", "wrs2_desc_path", "wrs2_asc_path">>,
                  WithHeaders(dinfo_template("URL_UNARCHIVE", "FROM_GLC_2010")),
                  get_links_from_glc_2010(Meta2010, bounds, Wrs2Desc \o Wrs2Asc))
    /\ UNCHANGED <<geojson, bounds, years_list, info_list, fetches, hash_seed, output, fnVars>>

GenGlc2015 ==
    /\ At("FROM_GLC_2015")
    /\ ReadsFiles(<<"meta_file_2015">>, WithHeaders(dinfo_template("URL", "FROM_GLC_2015")),
                  Gen(get_links_from_glc_2015(Meta2015, bounds), FALSE))
    /\ UNCHANGED <<geojson, bounds, years_list, info_list, fetches, hash_seed, output, fnVars>>

GenGlc2017 ==
    /\ At("FROM_GLC_2017")
    /\ ReadsFiles(<<"meta_file_2017">>, WithHeaders(dinfo_template("URL", "FROM_GLC_2017")),
                  Gen(get_links_from_glc_2017(Meta2017, bounds), FALSE))
    /\ UNCHANGED <<geojson, bounds, years_list, info_list, fetches, hash_seed, output, fnVars>>

GenGISD30 ==
    /\ At("GISD30")
    /\ \E seed \in 1 .. HashSeeds :
          LET links_iterator == Gen(get_links_gisd30(bounds, seed), FALSE)
          IN  /\ hash_seed \in {0, seed}
              /\ hash_seed' = seed
              /\ Called(CurInfo.year, links_iterator)
              /\ Consume(dinfo_template("URL_UNARCHIVE", "GISD30"), links_iterator)
    /\ UNCHANGED <<geojson, bounds, years_list, info_list, fetches, env, output, fnVars>>

\* lines 413-419: the grid file is looked for before get_links_wsf is called
GenWSF ==
    /\ At("WSF")
    /\ LET file == IF CurInfo.year = 2015 THEN "wsf_2015_grid_path" ELSE "wsf_2019_grid_path"
       IN  \E exists \in BOOLEAN :
              /\ CanBe(file, IF exists THEN "present" ELSE "missing")
              /\ env' = [env EXCEPT ![file] = IF exists THEN "present" ELSE "missing"]
              /\ LET links_iterator ==
                         Gen(IF exists THEN get_links_wsf(bounds, WsfGrid(CurInfo.year))
                             ELSE <<>>, FALSE)
                 IN  /\ IF exists THEN Called(CurInfo.year, links_iterator)
                        ELSE calls' = calls
                     /\ Consume(dinfo_template("URL", "WSF"), links_iterator)
    /\ UNCHANGED <<geojson, bounds, years_list, info_list, fetches, hash_seed, output, fnVars>>

GenTreecover ==
    /\ At("GFC_TreeCover2000")
    /\ LET links_iterator == Gen(get_links_gfc_treecover2000(bounds), FALSE)
       IN  /\ Called(CurInfo.year, links_iterator)
           /\ Consume(dinfo_template("URL", "GFC_TreeCover2000"), links_iterator)
    /\ UNCHANGED <<geojson, bounds, years_list, info_list, fetches, env, hash_seed, output, fnVars>>

GenUnofficial ==
    /\ At("GLC_FCS30D_UNOFFICIAL")
    /\ LET links_iterator == Gen(get_links_glc_fcs30d_unofficial(bounds), FALSE)
       IN  /\ Called(CurInfo.year, links_iterator)
           /\ Consume(dinfo_template("URL_UNOFFICIAL", "GLC_FCS30D_UNOFFICIAL"), links_iterator)
    /\ UNCHANGED <<geojson, bounds, years_list, info_list, fetches, env, hash_seed, output, fnVars>>

\* lines 436-443: the table is written unless it would be empty
WriteTable ==
    /\ pc = "write"
    /\ output' = IF all_dinfos = <<>> THEN output ELSE all_dinfos
    /\ pc' = "done"
    /\ UNCHANGED <<geojson, bounds, years_list, info_list, cur, all_dinfos, calls, fetches,
                   env, hash_seed, fnVars>>

Next ==
    \/ ReadAOI
    \/ CheckBounds
    \/ ReadYears
    \/ ReadYearsRefused
    \/ BuildInfoList
    \/ FetchMeta2015
    \/ FetchMeta2017
    \/ GenGSW
    \/ GenGFC
    \/ GenGfcFcs30d
    \/ GenESRI
    \/ GenGHS
    \/ GenGlc2010
    \/ GenGlc2015
    \/ GenGlc2017
    \/ GenGISD30
    \/ GenWSF
    \/ GenTreecover
    \/ GenUnofficial
    \/ WriteTable

Spec == Init /\ [][Next]_vars

----------------------------------------------------------------------------
(* Properties of the script                                                 *)

Started == pc \notin {"start", "check_bounds", "read_years", "build_info", "exit"}

\* resolved is the year the stated rule gives for a source and a requested
\* year: the requested year when the source has no list or lists it, else a
\* listed year none is nearer than, and the largest of those
IsRuleYear(source, year, resolved) ==
    LET available_years == SOURCE_YEAR_AVAILABILITY(source)
    IN  IF available_years = <<>> \/ InList(year, available_years)
        THEN resolved = year
        ELSE /\ InList(resolved, available_years)
             /\ \A i \in 1 .. Len(available_years) :
                    LET n == available_years[i]
                    IN  \/ Abs(resolved - year) < Abs(n - year)
                        \/ (Abs(resolved - year) = Abs(n - year) /\ resolved >= n)

InGswRange(y) == 1984 <= y /\ y <= 2023

\* the requested years a source gets an entry for
AskedYears(source) ==
    IF source = "GSW" THEN Select(years_list, InGswRange) ELSE years_list

EntryYears(source) == [i \in 1 .. Len(info_list[source]) |-> info_list[source][i].year]

CallYears(source) ==
    LET of_source(c) == c.source = source
        cs == Select(calls, of_source)
    IN  [i \in 1 .. Len(cs) |-> cs[i].year]

IsPrefix(s, t) == Len(s) <= Len(t) /\ s = SubSeq(t, 1, Len(s))

\* C1: for every source the years of its entries are, in the order of the
\* requested years, the requested year when the source has no availability
\* list or lists it, and else the listed year at the smallest distance, the
\* largest one on a tie (2005 in {2000, 2010} gives 2010, 2003 gives 2000);
\* the resolvers are called with these years, in this order (WSF only for
\* the years whose grid file is there).
C1_YearResolution ==
    /\ find_closest_year(2005, <<2000, 2010>>) = 2010
    /\ find_closest_year(2003, <<2000, 2010>>) = 2000
    /\ Started =>
          \A source \in SourceSet :
              LET asked == AskedYears(source)
                  resolved == EntryYears(source)
                  called == CallYears(source)
              IN  /\ Len(resolved) = Len(asked)
                  /\ \A i \in 1 .. Len(asked) : IsRuleYear(source, asked[i], resolved[i])
                  /\ IF source = "WSF"
                     THEN \A i \in 1 .. Len(called) : InList(called[i], resolved)
                     ELSE IsPrefix(called, resolved)
                  /\ (pc = "done" /\ source # "WSF") => called = resolved

\* 2017 is as far from 2015 as from 2019: get_links_wsf was called for 2019
C1_Witness ==
    /\ years_list = <<2017>>
    /\ pc = "done"
    /\ CallYears("WSF") = <<2019>>
    /\ CallYears("GFC_FCS30D") = <<2019>>
    /\ CallYears("GFC") = <<2017>>

\* C3: no failure of one source's resolver (an ESRI feature without
\* ImageName, a missing shapefile, catalog snapshot or WRS2 file) ends the
\* run: the script always goes on to the sources that follow.
C3_FailureIsolation == pc # "crash"

RecordsOf(map_name) ==
    LET of_map(d) == d.map_name = map_name
    IN  Select(all_dinfos, of_map)

\* C7: once the GFC source is done there is exactly one GFC record for each
\* requested year, in the order of the request, and its link is the archive
\* of that year whatever the AOI.
C7_GfcOneLinkPerYear ==
    (pc \in {"write", "done", "crash"} \/ (pc = "generate" /\ cur[1] > 2)) =>
        LET records == RecordsOf("GFC")
        IN  /\ Len(records) = Len(years_list)
            /\ \A i \in 1 .. Len(years_list) :
                  /\ records[i].year = years_list[i]
                  /\ records[i].url = GwlUrl(years_list[i])

\* an AOI in the open ocean, two requested years, two GFC records
C7_Witness ==
    /\ pc = "done"
    /\ bounds = shape_bounds(PolyPacific)
    /\ years_list = <<2003, 2024>>
    /\ Len(RecordsOf("GFC")) = 2

\* C8: when get_bounds_from_geojson returns None the script exits at the
\* bounds check: no resolver is called, no metadata is fetched, no record is
\* collected and no table is written.
C8_FailFastOnInvalidAoi ==
    (bounds = NoneBounds /\ pc \notin {"start", "check_bounds"}) =>
        /\ pc = "exit"
        /\ calls = <<>>
        /\ fetches = <<>>
        /\ all_dinfos = <<>>
        /\ output = None

\* the text that does not parse has ended the run
C8_Witness == pc = "exit" /\ ~geojson.parses /\ calls = <<>>

IsGeometry(v) == v.type \in {"Point", "Polygon"}

\* C9: for a Feature, for a FeatureCollection (by its first feature) and for
\* a bare Geometry object, get_bounds_from_geojson returns the bounding box
\* of the geometry.
C9_AcceptedShapes ==
    (pc # "start" /\ geojson.parses) =>
        LET v == geojson.value
        IN  /\ (v.type = "Feature" /\ IsGeometry(v.geometry))
                  => bounds = shape_bounds(v.geometry)
            /\ (v.type = "FeatureCollection" /\ Len(v.features) > 0)
                  => bounds = shape_bounds(v.features[1].geometry)
            /\ IsGeometry(v) => bounds = shape_bounds(v)

----------------------------------------------------------------------------
(* SpecQuant: the scalar quantizers applied to every coordinate value of    *)
(* the valid range, at a resolution of a tenth of a degree.                 *)

LatValues == Deg(-90) .. Deg(90)

LonValues == Deg(-180) .. Deg(180)

QuantInputs ==
    [axis : {"lat"}, value : LatValues, is_min : BOOLEAN]
      \cup [axis : {"lon"}, value : LonValues, is_min : BOOLEAN]

InitQuant ==
    /\ MainIdle
    /\ fn = "none"
    /\ inp \in QuantInputs
    /\ out = None

\* adjust_to_nearest_10 as get_links_glc_fcs30d_unofficial calls it
QuantGlobal ==
    /\ fn = "none"
    /\ inp.axis = "lon"
    /\ fn' = "adjust_to_nearest_10"
    /\ out' = adjust_to_nearest_10(inp.value, inp.is_min)
    /\ UNCHANGED <<inp, mainVars>>

\* the nested quantizer as get_links_from_glc_2015 calls it
QuantGlc2015 ==
    /\ fn = "none"
    /\ fn' = "adjust_glc2015"
    /\ out' = adjust_glc2015(inp.value, inp.axis = "lat", inp.is_min)
    /\ UNCHANGED <<inp, mainVars>>

\* the nested quantizer as get_links_gfc_treecover2000 calls it
QuantTreecover ==
    /\ fn = "none"
    /\ fn' = "adjust_treecover"
    /\ out' = adjust_treecover(inp.value, inp.axis = "lat", inp.is_min)
    /\ UNCHANGED <<inp, mainVars>>

\* _get_left_decval as get_links_gsw calls it
QuantLeftDecval ==
    /\ fn = "none"
    /\ fn' = "get_left_decval"
    /\ out' = get_left_decval(inp.value)
    /\ UNCHANGED <<inp, mainVars>>

NextQuant == QuantGlobal \/ QuantGlc2015 \/ QuantTreecover \/ QuantLeftDecval

SpecQuant == InitQuant /\ [][NextQuant]_vars

AdjustVariants == {"adjust_to_nearest_10", "adjust_glc2015", "adjust_treecover"}

\* the clamp range each variant's source gives for an axis
AxisMin(variant, axis) ==
    IF axis = "lon" THEN Deg(-180)
    ELSE IF variant = "adjust_glc2015" THEN Deg(-60)
    ELSE IF variant = "adjust_treecover" THEN Deg(-50)
    ELSE Deg(-180)

AxisMax(variant, axis) == IF axis = "lon" THEN Deg(180) ELSE Deg(80)

Aligned(v) == v % 100 = 0

\* C10 (as stated): every adjust_to_nearest_10 variant returns a value that is
\* already a multiple of 10 degrees within latitude [-90,90] / longitude
\* [-180,180] unchanged, for both rounding directions and both axes.
C10_AlignedUnchangedEverywhere ==
    (fn \in AdjustVariants /\ Aligned(inp.value)) => out = inp.value

\* C10 (amended): a multiple of 10 degrees is returned unchanged by rounding
\* down when it is not below the variant's axis minimum and by rounding up
\* when it is not above the variant's axis maximum; otherwise the variant
\* returns that clamp bound.
C10_AlignedUnchangedInsideClamp ==
    (fn \in AdjustVariants /\ Aligned(inp.value)) =>
        IF inp.is_min
        THEN out = Max2(AxisMin(fn, inp.axis), inp.value)
        ELSE out = Min2(AxisMax(fn, inp.axis), inp.value)

\* C10 witness: the 2015 variant rounding down latitude -60, its axis minimum
C10_Witness ==
    /\ fn = "adjust_glc2015"
    /\ inp = [axis |-> "lat", value |-> Deg(-60), is_min |-> TRUE]
    /\ out = Deg(-60)


----------------------------------------------------------------------------
(* SpecTile: the resolvers that need no auxiliary geometry, applied to      *)
(* bounding boxes, years and catalog snapshots drawn from bounded sets.     *)

LatChoices == {-500, -450, -1, 0, 35, 100, 102, 105, 163, 800}

LonChoices == {-1800, -1500, -300, -100, 0, 100, 200, 205, 210, 230, 270, 350,
               433, 1550, 1800}

BBoxes(lats, lons) ==
    {BBox(a, b, c, d) : <<a, b>> \in {p \in lats \X lats : p[1] <= p[2]},
                        <<c, d>> \in {p \in lons \X lons : p[1] <= p[2]}}

\* the Africa region of the source's examples, a point, the whole globe, and
\* a box in the South Pacific
AfricaBBox == BBox(35, 163, 270, 433)

YearBBoxes == {AfricaBBox, BBox(100, 100, 200, 200), BBox(-500, 800, -1800, 1800),
               BBox(-450, -450, -1500, -1500)}

YearRange == 1998 .. 2026

\* catalog entries of a FROM_GLC 2017 snapshot: '<x>_<lat>_<lon>.tif' names,
\* a name that is no .tif, a name whose lat is no number, a one-token name
Entries2017 ==
    { [id |-> 1, name |-> Name(<<Word, Tok(10), Tok(20)>>, "tif")],
      [id |-> 2, name |-> Name(<<Word, Tok(12), Tok(22)>>, "tif")],
      [id |-> 3, name |-> Name(<<Word, Tok(16), Tok(26)>>, "txt")],
      [id |-> 4, name |-> Name(<<Word, Word, Tok(20)>>, "tif")],
      [id |-> 5, name |-> Name(<<Word>>, "tif")] }

Lats2017 == {100, 110, 130, 150, 170}

Lons2017 == {200, 210, 230, 250, 270}

\* catalog entries of a FROM_GLC 2015 snapshot: tiles of the Africa region,
\* one of them twice, and a name with its letters before the digits
Entries2015 ==
    { [id |-> 1, name |-> "030E10N.tif"],
      [id |-> 2, name |-> "030E10N.tif"],
      [id |-> 3, name |-> "020E20N.tif"],
      [id |-> 4, name |-> "E030N10.tif"],
      [id |-> 5, name |-> "040E10N.tif"] }

BBoxes2015 == {AfricaBBox, BBox(100, 100, 300, 300), BBox(55, 101, 300, 405),
               BBox(-605, -455, -1800, -1705)}

\* the upper-left corners a tile label is formed for
CellLats == {10 * i : i \in -5 .. 8}

CellLons == {10 * i : i \in -18 .. 17}

\* catalog entries of a FROM_GLC 2010 snapshot: scenes of the WRS2 data
\* below, a preview image, a Landsat 7 name, and an L5 name whose characters
\* after the prefix are no digits (int() raises on it)
Entries2010 ==
    { [id |-> 41, name |-> Name2010("L5", 170, 52, "tif.tar.gz")],
      [id |-> 42, name |-> Name2010("l5", 170, 52, "jpg")],
      [id |-> 43, name |-> Name2010("L7", 171, 52, "tif.tar.gz")],
      [id |-> 44, name |-> Name2010("l5", 20, 200, "tif.tar.gz")],
      [id |-> 45, name |-> Name2010("L5", 171, 52, "tif.tar.gz")],
      [id |-> 46, name |-> [prefix |-> "L5", path |-> 0, row |-> 0, digits_ok |-> FALSE,
                            ext |-> "tif.tar.gz"]] }

BBoxes2010 == {AfricaBBox, BBox(100, 100, 200, 200), BBox(95, 105, 306, 310),
               BBox(-450, -450, -1500, -1500)}

TileInput(kind, bbox, year, meta) ==
    [kind |-> kind, bbox |-> bbox, year |-> year, meta |-> meta]

\* catalogs hold up to max_len entries
TileInputs(max_len) ==
    {TileInput("bbox", b, 0, <<>>) : b \in BBoxes(LatChoices, LonChoices)}
      \cup {TileInput("year", b, y, <<>>) : b \in YearBBoxes, y \in YearRange}
      \cup {TileInput("catalog", b, 0, m) :
               b \in BBoxes(Lats2017, Lons2017), m \in SeqsUpTo(Entries2017, max_len)}
      \cup {TileInput("catalog2015", b, 0, m) :
               b \in BBoxes2015, m \in SeqsUpTo(Entries2015, max_len)}
      \cup [kind : {"cell"}, lat : CellLats, lon : CellLons]
      \cup {TileInput("catalog2010", b, 0, m) :
               b \in BBoxes2010, m \in SeqsUpTo(Entries2010, max_len)}

InitTile ==
    /\ MainIdle
    /\ fn = "none"
    /\ inp \in TileInputs(MaxCatalog)
    /\ out = None

ApplyTreecover ==
    /\ fn = "none" /\ inp.kind = "bbox"
    /\ fn' = "get_links_gfc_treecover2000"
    /\ out' = get_links_gfc_treecover2000(inp.bbox)
    /\ UNCHANGED <<inp, mainVars>>

ApplyGisd30 ==
    /\ fn = "none" /\ inp.kind = "bbox"
    /\ fn' = "get_links_gisd30"
    /\ \E seed \in 1 .. HashSeeds : out' = get_links_gisd30(inp.bbox, seed)
    /\ UNCHANGED <<inp, mainVars>>

ApplyGfcFcs30d ==
    /\ fn = "none" /\ inp.kind = "year"
    /\ fn' = "get_links_gfc_fcs30d"
    /\ out' = get_links_gfc_fcs30d(inp.year, inp.bbox)
    /\ UNCHANGED <<inp, mainVars>>

ApplyGlc2017 ==
    /\ fn = "none" /\ inp.kind = "catalog"
    /\ fn' = "get_links_from_glc_2017"
    /\ out' = get_links_from_glc_2017(inp.meta, inp.bbox)
    /\ UNCHANGED <<inp, mainVars>>

ApplyScript2017 ==
    /\ fn = "none" /\ inp.kind = "catalog"
    /\ fn' = "script2017_get_links_for_region"
    /\ out' = script2017_get_links_for_region(inp.meta, inp.bbox)
    /\ UNCHANGED <<inp, mainVars>>

ApplyGlc2015 ==
    /\ fn = "none" /\ inp.kind = "catalog2015"
    /\ fn' = "get_links_from_glc_2015"
    /\ out' = get_links_from_glc_2015(inp.meta, inp.bbox)
    /\ UNCHANGED <<inp, mainVars>>

\* the label get_links_from_glc_2015 forms for one cell
ApplyGlc2015TileName ==
    /\ fn = "none" /\ inp.kind = "cell"
    /\ fn' = "glc2015_tile_name"
    /\ out' = glc2015_tile_name(inp.lat, inp.lon)
    /\ UNCHANGED <<inp, mainVars>>

ApplyGsw ==
    /\ fn = "none" /\ inp.kind = "year"
    /\ fn' = "get_links_gsw"
    /\ out' = get_links_gsw(inp.year, inp.bbox)
    /\ UNCHANGED <<inp, mainVars>>

\* get_links_from_glc_2010 with both WRS2 shapefiles there
ApplyGlc2010 ==
    /\ fn = "none" /\ inp.kind = "catalog2010"
    /\ fn' = "get_links_from_glc_2010"
    /\ out' = get_links_from_glc_2010(inp.meta, inp.bbox, Wrs2Desc \o Wrs2Asc)
    /\ UNCHANGED <<inp, mainVars>>

\* an info_list entry as __main__ builds them
InfoEntry(year, map_year, b) == [year |-> year, map_year |-> map_year, ranges |-> b]

\* lines 375-433 for one entry of GFC_FCS30D or GFC: the records of the links
\* the entry's resolver yields
entry_dinfos(source_name, info) ==
    LET links_iterator == IF source_name = "GFC_FCS30D"
                          THEN get_links_gfc_fcs30d(info.year, info.ranges)
                          ELSE get_links_gfc(info.map_year)
        template == [region |-> region_name, year |-> info.year,
                     map_name |-> IF source_name = "GFC_FCS30D" THEN "GWL_FCS30D"
                                  ELSE source_name,
                     map_year |-> info.map_year,
                     aoi |-> get_bounding_box_from_range(info.ranges),
                     type |-> "URL_UNARCHIVE"]
    IN  [i \in 1 .. Len(links_iterator) |-> template @@ [url |-> links_iterator[i]]]

\* lines 371-433: the records of an info_list, given as a sequence of
\* (source_name, info) pairs in the order the two loops visit them
RECURSIVE generate_combined_downloadinfo(_)
generate_combined_downloadinfo(pairs) ==
    IF pairs = <<>> THEN <<>>
    ELSE entry_dinfos(pairs[1][1], pairs[1][2]) \o generate_combined_downloadinfo(Tail(pairs))

\* the info_list the assembler is applied to: a GFC_FCS30D entry of the year
\* drawn, a GFC_FCS30D entry of 2020 after it, and a GFC entry after those
InfoListFcs30d(year, b) ==
    << <<"GFC_FCS30D", InfoEntry(year, year, b)>>,
       <<"GFC_FCS30D", InfoEntry(2020, 2020, b)>>,
       <<"GFC", InfoEntry(2021, 2021, b)>> >>

ApplyAssembler ==
    /\ fn = "none" /\ inp.kind = "year"
    /\ fn' = "generate_combined_downloadinfo_csv"
    /\ out' = generate_combined_downloadinfo(InfoListFcs30d(inp.year, inp.bbox))
    /\ UNCHANGED <<inp, mainVars>>

\* lines 520-549 and 392-393: the entry __main__ builds for GFC_FCS30D from
\* one requested year, handed to get_links_gfc_fcs30d with the AOI's ranges
ApplyMainGfcFcs30d ==
    /\ fn = "none" /\ inp.kind = "year"
    /\ fn' = "__main__ GFC_FCS30D"
    /\ out' = LET info == info_entries("GFC_FCS30D", <<inp.year>>)[1]
              IN  get_links_gfc_fcs30d(info.year, inp.bbox)
    /\ UNCHANGED <<inp, mainVars>>

ApplyUnofficial ==
    /\ fn = "none" /\ inp.kind = "bbox"
    /\ fn' = "get_links_glc_fcs30d_unofficial"
    /\ out' = get_links_glc_fcs30d_unofficial(inp.bbox)
    /\ UNCHANGED <<inp, mainVars>>

NextTile ==
    \/ ApplyTreecover
    \/ ApplyGisd30
    \/ ApplyGfcFcs30d
    \/ ApplyGlc2017
    \/ ApplyScript2017
    \/ ApplyGlc2015
    \/ ApplyGlc2015TileName
    \/ ApplyGsw
    \/ ApplyGlc2010
    \/ ApplyAssembler
    \/ ApplyMainGfcFcs30d
    \/ ApplyUnofficial

SpecTile == InitTile /\ [][NextTile]_vars

Yielded(seq, url) == \E k \in 1 .. Len(seq) : seq[k] = url

Count(seq, url) == Cardinality({k \in 1 .. Len(seq) : seq[k] = url})

\* at least one of the four points (lat,lon), (lat,lon+2), (lat+2,lon),
\* (lat+2,lon+2), in whole degrees, lies in the closed bbox b
FourCornerHit(lat, lon, b) ==
    \E dlat \in {0, 2}, dlon \in {0, 2} :
        /\ b.min_lat <= Deg(lat + dlat) /\ Deg(lat + dlat) <= b.max_lat
        /\ b.min_lon <= Deg(lon + dlon) /\ Deg(lon + dlon) <= b.max_lon

ParsesToLatLon(name) ==
    Len(name.stem) >= 2 /\ name.stem[Len(name.stem) - 1].num /\ name.stem[Len(name.stem)].num

\* C2: the FROM_GLC 2017 resolver of the pipeline yields a link for a catalog
\* entry whose name ends in '.tif' and parses to (lat, lon) if and only if one
\* of the four points (lat,lon), (lat,lon+2), (lat+2,lon), (lat+2,lon+2) lies
\* inside the closed bbox.
C2_FourCornerMatch ==
    fn = "get_links_from_glc_2017" =>
        \A i \in 1 .. Len(inp.meta) :
            LET ele == inp.meta[i]
                n == Len(ele.name.stem)
            IN  (EndsWithTif(ele.name) /\ ParsesToLatLon(ele.name)) =>
                    (Yielded(out, PclUrl(1, ele.id))
                        <=> FourCornerHit(ele.name.stem[n - 1].val, ele.name.stem[n].val, inp.bbox))

\* C4: every bbox with min <= max inside latitude [-50,80] and longitude
\* [-180,180] makes get_links_gfc_treecover2000 yield at least one URL.
C4_NonEmptyInsideCoverage ==
    (/\ fn = "get_links_gfc_treecover2000"
     /\ Deg(-50) <= inp.bbox.min_lat /\ inp.bbox.min_lat <= inp.bbox.max_lat
     /\ inp.bbox.max_lat <= Deg(80)
     /\ Deg(-180) <= inp.bbox.min_lon /\ inp.bbox.min_lon <= inp.bbox.max_lon
     /\ inp.bbox.max_lon <= Deg(180))
        => Len(out) >= 1

\* the closed longitude interval of band i and [min_lon, max_lon] share a point
BandOverlaps(i, b) ==
    Max2(Deg(map_link_ranges[i].lo), b.min_lon) <= Min2(Deg(map_link_ranges[i].hi), b.max_lon)

\* C5: get_links_gisd30 yields exactly one link for each band of the table
\* whose longitude interval overlaps [min_lon, max_lon] (touching ends count),
\* no link for another band and no link twice; for min_lon = -10,
\* max_lon = 10 the result is exactly the links of W5_W30 and E0_E30.
C5_Gisd30Bands ==
    fn = "get_links_gisd30" =>
        /\ \A i \in 1 .. 12 :
              Count(out, GisdUrl(map_link_ranges[i].val))
                  = IF BandOverlaps(i, inp.bbox) THEN 1 ELSE 0
        /\ \A k \in 1 .. Len(out) :
              \E i \in 1 .. 12 : out[k] = GisdUrl(map_link_ranges[i].val)
        /\ (inp.bbox.min_lon = Deg(-10) /\ inp.bbox.max_lon = Deg(10)) =>
              /\ Len(out) = 2
              /\ {out[1], out[2]} = {GisdUrl("W5_W30"), GisdUrl("E0_E30")}

\* C5 witness: the bbox of the example, resolved to two links
C5_Witness ==
    /\ fn = "get_links_gisd30"
    /\ inp.bbox.min_lon = Deg(-10) /\ inp.bbox.max_lon = Deg(10)
    /\ Len(out) = 2

\* C6: get_links_gfc_fcs30d yields at most one URL; for a global-coverage map
\* year (after the 2024 -> 2022 alias) it yields exactly the archive URL of
\* that map year; the Africa bbox with year 2010 gives the 2010 archive URL.
C6_GfcFcs30dOneLink ==
    fn = "get_links_gfc_fcs30d" =>
        LET my == IF inp.year = 2024 THEN 2022 ELSE inp.year
        IN  /\ Len(out) <= 1
            /\ my \in {2000, 2005, 2010, 2015, 2019, 2020, 2022} =>
                  out = <<GwlUrl(my)>>
            /\ (inp.year = 2010 /\ inp.bbox = AfricaBBox) =>
                  out = <<GwlUrl(2010)>>

\* C6 witness: the end-to-end example, resolved
C6_Witness ==
    /\ fn = "get_links_gfc_fcs30d"
    /\ inp.year = 2010 /\ inp.bbox = AfricaBBox
    /\ out = <<GwlUrl(2010)>>

\* the cells of the box the 2015 quantizer gives: upper edges lat in
\* (lat_min, lat_max], left edges lon in [lon_min, lon_max), whole degrees
Cells2015(b) ==
    LET lat_min == adjust_glc2015(b.min_lat, TRUE, TRUE)
        lat_max == adjust_glc2015(b.max_lat, TRUE, FALSE)
        lon_min == adjust_glc2015(b.min_lon, FALSE, TRUE)
        lon_max == adjust_glc2015(b.max_lon, FALSE, FALSE)
    IN  {c \in CellLats \X CellLons :
            /\ Deg(c[1]) > lat_min /\ Deg(c[1]) <= lat_max
            /\ Deg(c[2]) >= lon_min /\ Deg(c[2]) < lon_max}

\* cell c is visited before cell d: latitude descending, then longitude
\* ascending
VisitedBefore(c, d) == c[1] > d[1] \/ (c[1] = d[1] /\ c[2] < d[2])

\* C11: get_links_from_glc_2015 yields, for the cells of the quantized box
\* that have a catalog entry of exactly their label, taken with latitude
\* descending and within a latitude longitude ascending, the link of the
\* first such entry: one link per such cell, none for the other cells.
C11_Glc2015CellOrder ==
    fn = "get_links_from_glc_2015" =>
        LET meta == inp.meta
            entry(c) == CHOOSE i \in 1 .. Len(meta) :
                            /\ meta[i].name = glc2015_tile_name(c[1], c[2])
                            /\ \A j \in 1 .. i - 1 : meta[j].name # meta[i].name
            hits == {c \in Cells2015(inp.bbox) :
                        \E i \in 1 .. Len(meta) :
                            meta[i].name = glc2015_tile_name(c[1], c[2])}
            nth(k) == CHOOSE c \in hits :
                          Cardinality({d \in hits : VisitedBefore(d, c)}) = k - 1
        IN  /\ Len(out) = Cardinality(hits)
            /\ \A k \in 1 .. Len(out) : out[k] = PclUrl(3, meta[entry(nth(k))].id)

\* C11 witness: the tile at 20 N comes before the tile at 10 N although the
\* catalog lists it after; the tiles with no entry between them stop nothing
C11_Witness ==
    /\ fn = "get_links_from_glc_2015"
    /\ inp.bbox = AfricaBBox
    /\ inp.meta = << [id |-> 5, name |-> "040E10N.tif"], [id |-> 3, name |-> "020E20N.tif"] >>
    /\ out = <<PclUrl(3, 3), PclUrl(3, 5)>>

\* the decimal digits of n, w of them
Digits(n, w) ==
    IF w = 3
    THEN ToString((n \div 100) % 10) \o ToString((n \div 10) % 10) \o ToString(n % 10)
    ELSE ToString((n \div 10) % 10) \o ToString(n % 10)

\* C12 (as stated): the label of a cell is the longitude label, the latitude
\* label and '.tif', with 3 and 2 zero-padded digits and the letters E/W and
\* N/S, and the cell at lon=30, lat=10 has the label 'E030N10.tif'.
C12_LabelLettersFirst ==
    (fn = "glc2015_tile_name" /\ inp.lon = 30 /\ inp.lat = 10) => out = "E030N10.tif"

\* C12 (amended): the label of a cell is the 3 zero-padded digits of the
\* longitude magnitude, E for lon >= 0 else W, the 2 zero-padded digits of
\* the latitude magnitude, N for lat >= 0 else S, and '.tif'; the cell at
\* lon=30, lat=10 has the label '030E10N.tif'.
C12_LabelDigitsFirst ==
    fn = "glc2015_tile_name" =>
        /\ out = Digits(Abs(inp.lon), 3) \o (IF inp.lon >= 0 THEN "E" ELSE "W")
                    \o Digits(Abs(inp.lat), 2) \o (IF inp.lat >= 0 THEN "N" ELSE "S")
                    \o ".tif"
        /\ (inp.lon = 30 /\ inp.lat = 10) => out = "030E10N.tif"

\* C12 witness: the cell of the example, labelled
C12_Witness ==
    /\ fn = "glc2015_tile_name"
    /\ inp.lon = 30 /\ inp.lat = 10
    /\ out = "030E10N.tif"

\* the URL the stated rule gives for the grid corner (lon, lat) of a year
GswCornerUrl(year, lon, lat) ==
    [tmpl |-> "GSWE/YearlyClassification/LATEST/tiles/yearlyClassification",
     year |-> year,
     sep |-> IF year = 2021 THEN "_" ELSE "-",
     left |-> PadLeft(ToString(4 * ((70 - lat) \div 10)), 6),
     right |-> PadLeft(ToString(4 * ((lon + 180) \div 10)), 6)]

\* C13: get_links_gsw yields exactly one URL for every grid corner (lon,
\* lat) of the quantized bbox, start_lon <= lon <= end_lon and start_lat <=
\* lat <= end_lat in steps of 10, longitude outer and latitude inner, both
\* ascending; the URL carries left = 4*(70-lat)/10 and right =
\* 4*(lon+180)/10 padded with zeros to 6 characters, and '_' after the year
\* for 2021, '-' for every other year.
C13_GswCorners ==
    fn = "get_links_gsw" =>
        LET start_lon == get_left_decval(inp.bbox.min_lon)
            start_lat == get_left_decval(inp.bbox.min_lat)
            n_lon == (get_left_decval(inp.bbox.max_lon) - start_lon) \div 10 + 1
            n_lat == (get_left_decval(inp.bbox.max_lat) - start_lat) \div 10 + 1
        IN  /\ Len(out) = n_lon * n_lat
            /\ \A i \in 0 .. n_lon - 1, j \in 0 .. n_lat - 1 :
                  out[i * n_lat + j + 1]
                      = GswCornerUrl(inp.year, start_lon + 10 * i, start_lat + 10 * j)

\* C13 witness: the Africa region in 2021, six corners from (20 E, 0 N) on
C13_Witness ==
    /\ fn = "get_links_gsw"
    /\ inp.year = 2021 /\ inp.bbox = AfricaBBox
    /\ Len(out) = 6
    /\ out[1] = GswCornerUrl(2021, 20, 0)
    /\ out[2] = GswCornerUrl(2021, 20, 10)
    /\ out[2].sep = "_" /\ out[2].left = "000024" /\ out[2].right = "000080"

\* the record fields the template of a source has, url apart
TemplateFields(source_name) ==
    {"region", "year", "map_name", "map_year", "type", "aoi"}
        \cup (IF source_name \in {"FROM_GLC_2010", "FROM_GLC_2015", "FROM_GLC_2017"}
              THEN {"request_headers"} ELSE {})

\* C15: in every step of the assembler over a (source, entry) pair the
\* records appended are exactly one per URL the resolver yielded, in yield
\* order; each carries the pair's region, year, map_name, map_year, type and
\* aoi, request_headers for the FROM_GLC sources and for no other, and that
\* URL; records of one entry differ in url alone; and a pair whose resolver
\* yields nothing without raising appends nothing and the assembler goes on.
C15_OneRecordPerUrl ==
    [][pc = "generate" =>
          LET called == calls' # calls
              yielded == IF called THEN calls'[Len(calls')].links ELSE <<>>
              n == Len(all_dinfos)
          IN  /\ Len(all_dinfos') = n + Len(yielded)
              /\ SubSeq(all_dinfos', 1, n) = all_dinfos
              /\ \A i \in 1 .. Len(yielded) :
                    LET dinfo == all_dinfos'[n + i]
                    IN  /\ DOMAIN dinfo = TemplateFields(CurSource) \cup {"url"}
                        /\ dinfo.url = yielded[i]
                        /\ dinfo.region = region_name
                        /\ dinfo.year = CurInfo.year
                        /\ dinfo.map_year = CurInfo.map_year
                        /\ dinfo.map_name = IF CurSource = "GFC_FCS30D" THEN "GWL_FCS30D"
                                            ELSE CurSource
                        /\ dinfo.type \in {"URL", "URL_UNARCHIVE", "URL_UNOFFICIAL"}
                        /\ dinfo.aoi = get_bounding_box_from_range(bounds)
                        /\ [dinfo EXCEPT !.url = ""]
                              = [all_dinfos'[n + 1] EXCEPT !.url = ""]
              /\ (yielded = <<>> /\ (called => ~calls'[Len(calls')].raised))
                    => /\ all_dinfos' = all_dinfos
                       /\ pc' \in {"generate", "write"}
                       /\ cur' # cur
      ]_vars

\* a finished run in which one resolver yielded several links, another was
\* called and yielded none, and a FROM_GLC source gave a record
C15_Witness ==
    /\ pc = "done"
    /\ \E k \in 1 .. Len(calls) : Len(calls[k].links) >= 2
    /\ \E k \in 1 .. Len(calls) : calls[k].links = <<>> /\ ~calls[k].raised
    /\ \E i \in 1 .. Len(all_dinfos) : "request_headers" \in DOMAIN all_dinfos[i]
    /\ output = all_dinfos

\* C16: the records of a run are fixed by the region, the info_list and the
\* auxiliary data: sources in info_list order, entries in order, and for each
\* entry the links in the one order the resolver enumerates the AOI in.  For
\* GISD30 that is: the links a call yielded are the sequence the resolver
\* yields under every hash seed the process may have been started with.
C16_DeterministicOrder ==
    /\ \A k \in 1 .. Len(calls) :
          calls[k].source = "GISD30" =>
              \A seed \in 1 .. HashSeeds : calls[k].links = get_links_gisd30(bounds, seed)
    /\ \A k \in 1 .. Len(calls) - 1 :
          \E i, j \in 1 .. Len(sources) :
              /\ sources[i] = calls[k].source
              /\ sources[j] = calls[k + 1].source
              /\ i <= j

\* the year is, after the 2024 -> 2022 alias, in neither table of GFC_FCS30D
UnrecognisedFcs30dYear(year) ==
    LET map_year == IF year = 2024 THEN 2022 ELSE year
    IN  map_year \notin {2000, 2005, 2010, 2015, 2019, 2020, 2022}

\* C17: for a year that, after the 2024 -> 2022 alias, is neither a
\* global-coverage year nor a key of the region table, get_links_gfc_fcs30d
\* yields no link, and the assembler gives that entry no record and goes on:
\* the records of the entry and of the source after it are all there.
C17_UnrecognisedYearYieldsNothing ==
    /\ (fn = "get_links_gfc_fcs30d" /\ UnrecognisedFcs30dYear(inp.year)) => out = <<>>
    /\ (fn = "generate_combined_downloadinfo_csv" /\ UnrecognisedFcs30dYear(inp.year)) =>
          /\ Len(out) = 2
          /\ out[1].map_name = "GWL_FCS30D" /\ out[1].year = 2020
          /\ out[1].url = GwlUrl(2020)
          /\ out[2].map_name = "GFC" /\ out[2].year = 2021
          /\ out[2].url = get_links_gfc(2021)[1]

C17_Witness ==
    /\ fn = "generate_combined_downloadinfo_csv"
    /\ inp.year = 2003
    /\ Len(out) = 2 /\ out[1].year = 2020

\* C18: for every value inside the axis range, fractional degrees included,
\* rounding down returns the largest multiple of 10 degrees that is <= the
\* value and rounding up the smallest multiple of 10 degrees that is >= the
\* value (the clamp bounds are multiples of 10, so inside the range they do
\* not change either), and so the quantized bound lies outward of the value.
C18_OutwardRounding ==
    (/\ fn \in AdjustVariants
     /\ AxisMin(fn, inp.axis) <= inp.value
     /\ inp.value <= AxisMax(fn, inp.axis)) =>
        /\ Aligned(out)
        /\ IF inp.is_min
           THEN out <= inp.value /\ inp.value < out + Deg(10)
           ELSE out >= inp.value /\ inp.value > out - Deg(10)

\* C19: for every coordinate value, positive, zero or negative, whole or
\* fractional, _get_left_decval returns the largest multiple of 10 degrees
\* that is less than or equal to the value.
C19_LeftDecvalFloors ==
    fn = "get_left_decval" =>
        /\ out % 10 = 0
        /\ Deg(out) <= inp.value
        /\ inp.value < Deg(out + 10)

\* the WRS-2 scenes (PATH, ROW) that are valid and intersect the bbox
IntersectingScenes(b) ==
    LET wrs2 == Wrs2Desc \o Wrs2Asc
    IN  {<<wrs2[i].PATH, wrs2[i].ROW>> :
            i \in {j \in 1 .. Len(wrs2) : wrs2[j].is_valid /\ BoxIntersects(wrs2[j].bbox, b)}}

\* C14: get_links_from_glc_2010 yields the link of a catalog entry if and
\* only if the entry's name starts with 'L5' or 'l5', ends with
\* '.tif.tar.gz', and carries after the prefix the 3+3 digits of a scene
\* that intersects the AOI, whatever else the catalog holds.
C14_Glc2010Match ==
    fn = "get_links_from_glc_2010" =>
        \A i \in 1 .. Len(inp.meta) :
            LET ele == inp.meta[i]
            IN  Yielded(out.links, PclUrl(4, ele.id))
                    <=> /\ ele.name.prefix \in {"L5", "l5"}
                        /\ ele.name.ext = "tif.tar.gz"
                        /\ ele.name.digits_ok
                        /\ <<ele.name.path, ele.name.row>> \in IntersectingScenes(inp.bbox)

----------------------------------------------------------------------------
(* SpecFetch: the paginated metadata fetch loops against a server that      *)
(* holds a fixed number of records per directory and answers every request  *)
(* successfully, or fails the request for one page.                         *)

\* pageSize of every fetch loop
PageSize == 100

\* the most records the server holds in a directory
MaxRecords == 250

\* the requests a loop is followed for
MaxRequests == 4

\* the server's answer to a request for page pageNum of directory dir_id,
\* which holds the records <<dir_id, 1>> .. <<dir_id, total>>
ServerPage(dir_id, total, pageNum) ==
    LET first == (pageNum - 1) * PageSize + 1
        last == Min2(total, pageNum * PageSize)
    IN  [success |-> TRUE,
         data |-> [total |-> total,
                   list |-> [k \in 1 .. Max2(0, last - first + 1) |-> <<dir_id, first + k - 1>>]]]

\* what requests.post and response.json() give for page pageNum: the request
\* for page inp.fail_at raises a RequestException (a network error, or a bad
\* status at raise_for_status) or is answered with success = false
Response(dir_id, pageNum) ==
    IF inp.fail_at = pageNum
    THEN [raises |-> inp.fail_kind = "network", success |-> FALSE,
          data |-> [total |-> 0, list |-> <<>>]]
    ELSE [raises |-> FALSE] @@ ServerPage(dir_id, inp.total, pageNum)

FetchLoops == {"_fetch_pcl_metadata", "get_info_2015", "get_info_2017", "get_info_2010"}

\* the 2010 script reads its directory ids from a file; the other loops ask
\* one directory
FetchTargets ==
    [loop : FetchLoops \ {"get_info_2010"}, dir_ids : {<<1>>}]
      \cup [loop : {"get_info_2010"}, dir_ids : {<<1>>, <<1, 2>>}]

\* the page whose request fails and how; fail_at = 0: no request fails
FetchFailures ==
    {[fail_at |-> 0, fail_kind |-> "none"]}
      \cup [fail_at : 1 .. MaxRequests - 1, fail_kind : {"network", "api"}]

FetchInputs ==
    {[kind |-> "fetch", loop |-> t.loop, dir_ids |-> t.dir_ids, total |-> n,
      fail_at |-> f.fail_at, fail_kind |-> f.fail_kind] :
        t \in FetchTargets, n \in 0 .. MaxRecords, f \in FetchFailures}

InitFetch ==
    /\ MainIdle
    /\ fn = "none"
    /\ inp \in FetchInputs
    /\ out = None

\* res = [] and pageNum, pageSize = 1, 100; dir is the position in dir_ids,
\* requests counts the requests of the while loop that is running
StartFetch ==
    /\ fn = "none" /\ inp.kind = "fetch"
    /\ fn' = inp.loop
    /\ out' = [at |-> "while", res |-> <<>>, pageNum |-> 1, dir |-> 1, requests |-> 0]
    /\ UNCHANGED <<inp, mainVars>>

\* one pass of the while loop of _fetch_pcl_metadata (lines 334-359); at
\* "returned" the file is written and res returned, at "returned_none" the
\* function has returned None and written nothing
FetchPclPage ==
    /\ fn = "_fetch_pcl_metadata" /\ out.at = "while"
    /\ LET resp_data == Response(inp.dir_ids[1], out.pageNum)
           total == resp_data.data.total
           page_list == resp_data.data.list
           asked == [out EXCEPT !.requests = out.requests + 1]
       IN  out' = IF resp_data.raises THEN [asked EXCEPT !.at = "returned_none"]
                  ELSE IF ~resp_data.success THEN [asked EXCEPT !.at = "returned"]
                  ELSE IF page_list = <<>> THEN [asked EXCEPT !.at = "returned"]
                  ELSE IF out.pageNum * PageSize >= total
                  THEN [asked EXCEPT !.res = out.res \o page_list, !.at = "returned"]
                  ELSE [asked EXCEPT !.res = out.res \o page_list,
                                     !.pageNum = out.pageNum + 1]
    /\ UNCHANGED <<fn, inp, mainVars>>

\* one pass of the while loop of a get_info script; a break leaves the loop
\* for the next directory id, or for the save and the return after the last;
\* an exception of the request is not caught
get_info_pass ==
    LET resp_data == Response(inp.dir_ids[out.dir], out.pageNum)
        asked == [out EXCEPT !.requests = out.requests + 1]
        break == IF out.dir < Len(inp.dir_ids)
                 THEN [out EXCEPT !.dir = out.dir + 1, !.pageNum = 1, !.requests = 0]
                 ELSE [asked EXCEPT !.at = "returned"]
    IN  IF resp_data.raises THEN [asked EXCEPT !.at = "raised"]
        ELSE IF ~resp_data.success THEN break
        ELSE IF resp_data.data.total <= 0 THEN break
        ELSE [asked EXCEPT !.res = out.res \o resp_data.data.list,
                           !.pageNum = out.pageNum + 1]

\* get_info of 2015/Download_FROM_GLC_2015.py, lines 33-55
GetInfo2015Page ==
    /\ fn = "get_info_2015" /\ out.at = "while"
    /\ out.requests < MaxRequests
    /\ out' = get_info_pass
    /\ UNCHANGED <<fn, inp, mainVars>>

\* get_info of 2017/Download_FROM_GLC_2017.py, lines 33-55
GetInfo2017Page ==
    /\ fn = "get_info_2017" /\ out.at = "while"
    /\ out.requests < MaxRequests
    /\ out' = get_info_pass
    /\ UNCHANGED <<fn, inp, mainVars>>

\* get_info of 2010/Download_FROM_GLC_2010.py, lines 69-93
GetInfo2010Page ==
    /\ fn = "get_info_2010" /\ out.at = "while"
    /\ out.requests < MaxRequests
    /\ out' = get_info_pass
    /\ UNCHANGED <<fn, inp, mainVars>>

NextFetch ==
    \/ StartFetch
    \/ FetchPclPage
    \/ GetInfo2015Page
    \/ GetInfo2017Page
    \/ GetInfo2010Page

SpecFetch == InitFetch /\ [][NextFetch]_vars

\* the records of the directories asked, in server order
RECURSIVE ServerRecords(_, _)
ServerRecords(dir_ids, total) ==
    IF dir_ids = <<>> THEN <<>>
    ELSE [k \in 1 .. total |-> <<Head(dir_ids), k>>] \o ServerRecords(Tail(dir_ids), total)

\* C20: against a server that holds N records and answers every request
\* successfully, every fetch loop (_fetch_pcl_metadata and the get_info
\* scripts) makes at most max(1, ceil(N/100)) requests, stops once
\* pageNum*100 >= total or a page is empty, and returns all N records in
\* server order.
C20_FetchTerminates ==
    (fn \in FetchLoops /\ inp.fail_at = 0) =>
        /\ out.requests <= Max2(1, (inp.total + PageSize - 1) \div PageSize)
        /\ out.at = "returned" => out.res = ServerRecords(inp.dir_ids, inp.total)
        /\ (out.at = "while" /\ out.requests >= 1)
              => (out.pageNum - 1) * PageSize < inp.total

\* the entries of the first k pages of the directory asked
FirstPages(k) ==
    LET all == ServerRecords(inp.dir_ids, inp.total)
    IN  SubSeq(all, 1, Min2(Len(all), k * PageSize))

\* the request that has just been made is the one that fails
FailureMet == inp.fail_at >= 1 /\ out.requests = inp.fail_at /\ out.at # "while"

\* C21: when the request for a page fails, by a network error or by an API
\* failure response, after k >= 0 pages have been collected,
\* _fetch_pcl_metadata returns the entries of those k pages in order.
C21_FailureKeepsCollected ==
    (fn = "_fetch_pcl_metadata" /\ FailureMet) =>
        /\ out.at = "returned"
        /\ out.res = FirstPages(inp.fail_at - 1)

\* C22: for every year the sequence get_links_gfc_fcs30d yields is the same
\* for all bounding boxes, every key of the region table being a
\* global-coverage year as well; and the entry the main pipeline builds for
\* GFC_FCS30D from any requested year yields exactly one link.
C22_GfcFcs30dBboxIndependent ==
    /\ \A y \in DOMAIN predefined_bboxes : InList(y, global_coverage_years)
    /\ fn = "get_links_gfc_fcs30d" =>
          \A b \in YearBBoxes : get_links_gfc_fcs30d(inp.year, b) = out
    /\ fn = "__main__ GFC_FCS30D" => Len(out) = 1

\* 2010 is a key of the region table; the AOI in the South Pacific does not
\* meet the region, and the link is yielded
C22_Witness ==
    /\ fn = "get_links_gfc_fcs30d"
    /\ inp.year = 2010
    /\ ~BoxIntersects(inp.bbox, predefined_bboxes[2010])
    /\ out = <<GwlUrl(2010)>>

\* the URL of the 10-degree longitude cell that starts at lon (whole
\* degrees): the band ends lon and lon + 5, the one nearer to 0 first
UnofficialCellUrl(lon) ==
    LET label(v) == (IF v >= 0 THEN "E" ELSE "W") \o ToString(Abs(v))
        near == IF Abs(lon) < Abs(lon + 5) THEN lon ELSE lon + 5
        far == IF Abs(lon) < Abs(lon + 5) THEN lon + 5 ELSE lon
    IN  [tmpl |-> "zenodo.org/records/8239305/files/GLC_FCS30D_19852022maps",
         left_left_top |-> label(near), right_left_top |-> label(far)]

\* C23: for a bbox with -180 <= min_lon <= max_lon <= 180 every URL that
\* get_links_glc_fcs30d_unofficial yields is the URL of a 10-degree longitude
\* cell [lon, lon + 10] that meets [min_lon, max_lon], and both band ends the
\* URL names lie within [-180, 180].
C23_UnofficialCellsInsideAoi ==
    fn = "get_links_glc_fcs30d_unofficial" =>
        \A i \in 1 .. Len(out) :
            \E lon \in {10 * k : k \in -19 .. 19} :
                /\ out[i] = UnofficialCellUrl(lon)
                /\ Deg(lon) <= inp.bbox.max_lon
                /\ Deg(lon + 10) >= inp.bbox.min_lon
                /\ -180 <= lon /\ lon + 5 <= 180

\* C24: whatever years are requested, no source has two entries of the same
\* resolved year in info_list, and the table written holds no two records
\* with the same source, year and url.
C24_NoDuplicateResolution ==
    /\ Started =>
          \A source \in SourceSet :
              \A i, j \in 1 .. Len(info_list[source]) :
                  info_list[source][i].year = info_list[source][j].year => i = j
    /\ pc = "done" =>
          \A i, j \in 1 .. Len(all_dinfos) :
              (/\ all_dinfos[i].map_name = all_dinfos[j].map_name
               /\ all_dinfos[i].year = all_dinfos[j].year
               /\ all_dinfos[i].url = all_dinfos[j].url) => i = j

============================================================================
